---- MODULE Spec2Model ----
(***************************************************************************)
(* Model of the document pipeline of src/core/document_processor.py:       *)
(* process_single_image (region sort, enrichment, page body) and           *)
(* process_all_images (page loop and the export fallback chain with the    *)
(* html / pdf / docx re-parsers and the tex writer).                       *)
(*                                                                         *)
(* Text is a sequence of lexemes, each a TLA+ string:                      *)
(*   "\\"  one backslash,  "{" "}" "[" "]"  the brackets,                  *)
(*   "&" "%" "$" "#" "_"  the escapable specials,                          *)
(*   " " "\n"  blank and newline,  "<01>" ...  the named code point,       *)
(*   a member of Letters  a maximal run of [a-zA-Z],                       *)
(*   anything else  one or more characters outside [a-zA-Z\\{}].           *)
(***************************************************************************)
EXTENDS Integers, Sequences, FiniteSets, TLC

\* ------------------------------------------------------------------ bounds
MaxPages == 2
MaxRegions == 2

\* ------------------------------------------------------------ text helpers
BS == "\\"

\* Runs of [a-zA-Z] that occur in the modelled texts.
Letters ==
  {"section", "subsection", "subsubsection", "textbf", "textit", "emph",
   "text", "textbackslash", "textwidth", "begin", "end", "figure",
   "includegraphics", "caption", "centering", "newpage", "width", "h",
   "Alpha", "beta", "fee", "substance", "Intro", "foo"}

\* Letter runs that start with "text" (str.startswith('\\text')).
TextPrefixed == {"text", "textbf", "textit", "textbackslash", "textwidth"}

\* The class [&%$#_{}] of the unescape pattern.
Specials == {"&", "%", "$", "#", "_", "{", "}"}

\* Code points removed by clean_text_for_xml: representatives of
\* 0x00-0x08, 0x0B-0x0C and 0x0E-0x1F.
ControlStripped == {"<00>", "<01>", "<08>", "<0B>", "<0C>", "<0E>", "<1B>", "<1C>", "<1F>"}

\* Python str.isspace / regex \s on the modelled code points: blank, \t, \n,
\* \r, 0x0B, 0x0C and 0x1C-0x1F are whitespace; 0x00-0x08 and 0x0E-0x1B are not.
IsSpace(t) == t \in {" ", "\n", "\t", "\r", "<0B>", "<0C>", "<1C>", "<1F>"}

SetMin(S) == CHOOSE x \in S : \A y \in S : x <= y
SetMax(S) == CHOOSE x \in S : \A y \in S : x >= y

\* str.strip()
Strip(s) ==
  LET ns == {i \in 1..Len(s) : ~IsSpace(s[i])}
  IN  IF ns = {} THEN <<>> ELSE SubSeq(s, SetMin(ns), SetMax(ns))

RECURSIVE JoinFrom(_, _, _)
JoinFrom(parts, sep, i) ==
  IF i > Len(parts) THEN <<>>
  ELSE IF i = Len(parts) THEN parts[i]
  ELSE parts[i] \o sep \o JoinFrom(parts, sep, i + 1)

\* sep.join(parts)
Join(parts, sep) == JoinFrom(parts, sep, 1)

\* lit occurs in s at position i
MatchAt(s, i, lit) ==
  /\ i >= 1
  /\ i + Len(lit) - 1 <= Len(s)
  /\ \A k \in 1..Len(lit) : s[i + k - 1] = lit[k]

\* lit in s
Contains(s, lit) == \E i \in 1..Len(s) : MatchAt(s, i, lit)

\* s.startswith(lit)
StartsWith(s, lit) == MatchAt(s, 1, lit)

\* ---------------------------------------------------- clean_text_for_xml
RECURSIVE StripControl(_, _)
\* re.sub(r'[\x00-\x08\x0B-\x0C\x0E-\x1F]', '', text), from position i on
StripControl(text, i) ==
  IF i > Len(text) THEN <<>>
  ELSE (IF text[i] \in ControlStripped THEN <<>> ELSE <<text[i]>>) \o StripControl(text, i + 1)

clean_text_for_xml(text) ==
  IF text = <<>> THEN <<>> ELSE StripControl(text, 1)

\* ------------------------------------------------ process_text_with_deepseek
\* api is the outcome of the one requests.post of this call:
\*   kind "ok"        status 200 and a well-formed body carrying api.text
\*   kind "status"    a non-200 status
\*   kind "exception" requests.post raised (connection error)
\*   kind "timeout"   the 60 s timeout raised
\*   kind "badjson"   status 200 but the body lacks choices[0].message.content
\* The result is the returned text and the number of requests made.
\* (DeepseekRetries: the variant that posts a second time after a failure.)
DeepseekRetries(ocr_text, api) ==
  IF api.kind = "ok" THEN [text |-> api.text, posts |-> 1]
  ELSE [text |-> ocr_text, posts |-> 2]

process_text_with_deepseek(ocr_text, api) ==
  IF api.kind = "ok" THEN [text |-> api.text, posts |-> 1]
  ELSE [text |-> ocr_text, posts |-> 1]

\* -------------------------------------------------------- save_region_image
\* Lexemes standing for the non-ASCII literals of the source:
\*   "<biaoge>" 表格   "<tu>" 图   "<tupian>" 图片   "<gongshi>" 公式
\*   "<di>" 第   "<ye>" 页   "<wendang-chuli-jieguo>" 文档处理结果
None == "None"

Max2(a, b) == IF a >= b THEN a ELSE b
Min2(a, b) == IF a <= b THEN a ELSE b

\* bbox clamped to the image: x1,y1 = max(0,.), x2,y2 = min(shape[1],.), min(shape[0],.)
Clamp(bbox, img) ==
  <<Max2(0, bbox[1]), Max2(0, bbox[2]), Min2(img.w, bbox[3]), Min2(img.h, bbox[4])>>

\* x2 > x1 and y2 > y1
NonEmptyBox(c) == c[3] > c[1] /\ c[4] > c[2]

\* the variant of the file name that leaves out the page
RegionPathNoPage(region_type, page_index, region_index) ==
  region_type \o "/region_" \o ToString(region_index) \o ".jpg"

\* type_dir / f"page_{page_index}_region_{region_index}.jpg", relative to output_dir
RegionPath(region_type, page_index, region_index) ==
  region_type \o "/page_" \o ToString(page_index) \o "_region_" \o ToString(region_index) \o ".jpg"

\* imwrite is what cv2.imwrite (or the mkdir before it) does for this call:
\*   "ok" writes the file, "false" returns False without raising and writes
\*   nothing, "raise" raises.  The result is the returned path (None when
\*   nothing is returned), the path handed to cv2.imwrite (None when it is not
\*   called) and whether a file was written.
save_region_image(img, bbox, region_type, page_index, region_index, imwrite) ==
  LET c == Clamp(bbox, img)
      p == RegionPath(region_type, page_index, region_index)
  IN  IF ~NonEmptyBox(c) THEN [path |-> None, target |-> None, wrote |-> FALSE]
      ELSE IF imwrite = "raise" THEN [path |-> None, target |-> p, wrote |-> FALSE]
      ELSE [path |-> p, target |-> p, wrote |-> (imwrite = "ok")]

\* ----------------------------------------------------- process_single_image
\* A region as the layout model returns it, with the outcomes of the external
\* calls made while it is processed:
\*   idx     position in the list the layout model returned
\*   type    'text', 'title', 'table', 'figure', 'image', 'formula', 'unknown'
\*   bbox    <<x1, y1, x2, y2>>, or <<>> when the model gave none
\*   res     the OCR line texts of res['res'] (<<>> when absent or empty)
\*   ocr     the fallback ocr_model.ocr call: raises, or returns these lines
\*   api     the cleanup-service outcome (see process_text_with_deepseek)
\*   imwrite the cv2.imwrite outcome (see save_region_image)

\* the variant of the key that compares the left edge before the top edge
SortKeyXFirst(r) ==
  <<IF Len(r.bbox) >= 1 THEN r.bbox[1] ELSE 0,
    IF Len(r.bbox) >= 2 THEN r.bbox[2] ELSE 0>>

\* key=lambda x: (bbox[1] if len(bbox) >= 2 else 0, bbox[0] if len(bbox) >= 1 else 0)
SortKey(r) ==
  <<IF Len(r.bbox) >= 2 THEN r.bbox[2] ELSE 0,
    IF Len(r.bbox) >= 1 THEN r.bbox[1] ELSE 0>>

\* tuple comparison a <= b
KeyLeq(a, b) == a[1] < b[1] \/ (a[1] = b[1] /\ a[2] <= b[2])

\* r placed behind every element whose key is <= its own (stability)
InsertSorted(r, s) ==
  LET later == {i \in 1..Len(s) : ~KeyLeq(SortKey(s[i]), SortKey(r))}
      at == IF later = {} THEN Len(s) + 1 ELSE SetMin(later)
  IN  SubSeq(s, 1, at - 1) \o <<r>> \o SubSeq(s, at, Len(s))

RECURSIVE SortFrom(_, _, _)
SortFrom(rs, i, s) ==
  IF i > Len(rs) THEN s ELSE SortFrom(rs, i + 1, InsertSorted(rs[i], s))

\* sorted(processed_results, key=...)
sorted_results(rs) == SortFrom(rs, 1, <<>>)

\* "\n\\begin{figure}[h]\n\\centering\n\\includegraphics[width=0.8\\textwidth]{path}\n\\caption{caption}\n\\end{figure}\n"
FigureFragment(latex_path, caption) ==
  <<"\n", BS, "begin", "{", "figure", "}", "[", "h", "]", "\n",
    BS, "centering", "\n",
    BS, "includegraphics", "[", "width", "=", "0.8", BS, "textwidth", "]",
    "{", latex_path, "}", "\n",
    BS, "caption", "{", caption, "}", "\n",
    BS, "end", "{", "figure", "}", "\n">>

caption_map(region_type) ==
  CASE region_type = "table" -> "<biaoge>"
    [] region_type = "figure" -> "<tu>"
    [] region_type = "image" -> "<tupian>"
    [] region_type = "formula" -> "<gongshi>"
    [] OTHER -> "<tupian>"

\* The OCR text of a text/title region: the joined res lines, or, when those
\* are blank and the clamped box is non-empty, the fallback OCR of the crop.
RegionOcrText(r, img) ==
  LET from_res == IF r.res # <<>> THEN Join(r.res, <<"\n">>) ELSE <<>>
  IN  IF Strip(from_res) # <<>> THEN from_res
      ELSE IF NonEmptyBox(Clamp(r.bbox, img))
           THEN (IF r.ocr.raises THEN <<>> ELSE Join(r.ocr.lines, <<"\n">>))
           ELSE from_res

EmptyAcc ==
  [parts |-> <<>>, src |-> <<>>, posts |-> <<>>, targets |-> <<>>,
   saved |-> {}, region_index |-> 0]

\* One iteration of `for res in sorted_results`.  acc carries latex_parts
\* (parts) and region_index, and records for each fragment the region it came
\* from (src), each cleanup request (posts), each path handed to cv2.imwrite
\* (targets) and the files written (saved).
RegionStep(r, img, page_index, acc) ==
  IF Len(r.bbox) < 4 THEN acc
  ELSE IF r.type \in {"text", "title"} THEN
    LET ocr_text == RegionOcrText(r, img)
        cleaned == clean_text_for_xml(ocr_text)
        d == process_text_with_deepseek(cleaned, r.api)
    IN  IF Strip(ocr_text) # <<>>
        THEN [acc EXCEPT !.parts = Append(@, d.text),
                         !.src = Append(@, r.idx),
                         !.posts = Append(@, [idx |-> r.idx, text |-> cleaned, n |-> d.posts])]
        ELSE acc
  ELSE IF r.type \in {"table", "figure", "image", "formula"} THEN
    LET sv == save_region_image(img, r.bbox, r.type, page_index, acc.region_index, r.imwrite)
        a1 == [acc EXCEPT !.region_index = @ + 1,
                          !.targets = IF sv.target = None THEN @ ELSE Append(@, sv.target),
                          !.saved = IF sv.wrote THEN @ \cup {sv.path} ELSE @]
    IN  IF sv.path # None
        THEN [a1 EXCEPT !.parts = Append(@, FigureFragment(sv.path, caption_map(r.type))),
                        !.src = Append(@, r.idx)]
        ELSE a1
  ELSE acc

RECURSIVE RegionLoop(_, _, _, _, _)
\* for res in sorted_results: ...
RegionLoop(rs, i, img, page_index, acc) ==
  IF i > Len(rs) THEN acc
  ELSE RegionLoop(rs, i + 1, img, page_index, RegionStep(rs[i], img, page_index, acc))


\* the variant in which a failing fallback OCR call ends the page with an
\* empty body, as the layout failure does
OcrFailureEndsPage(sc, page_index) ==
  LET failing == \E j \in DOMAIN sc.regions :
                   /\ sc.regions[j].type \in {"text", "title"}
                   /\ Len(sc.regions[j].bbox) = 4
                   /\ sc.regions[j].res = <<>>
                   /\ NonEmptyBox(Clamp(sc.regions[j].bbox, sc.img))
                   /\ sc.regions[j].ocr.raises
      acc == IF ~sc.readable \/ ~sc.detect_ok \/ failing THEN EmptyAcc
             ELSE RegionLoop(sorted_results(sc.regions), 1, sc.img, page_index, EmptyAcc)
  IN  [body |-> Join(acc.parts, <<"\n", "\n">>), acc |-> acc]

\* A page input sc: readable (cv2.imread returned an array), detect_ok (the
\* layout model did not raise), img (the array's width and height) and regions.
\* The result is the accumulator of the region loop plus body, the returned
\* "\n\n".join(latex_parts).
process_single_image(sc, page_index) ==
  LET acc == IF ~sc.readable \/ ~sc.detect_ok THEN EmptyAcc
             ELSE RegionLoop(sorted_results(sc.regions), 1, sc.img, page_index, EmptyAcc)
  IN  [body |-> Join(acc.parts, <<"\n", "\n">>), acc |-> acc]

\* ------------------------------------------------ regular-expression steps
\* s[i], or "" outside s
TokAt(s, i) == IF i \in 1..Len(s) THEN s[i] ELSE ""

\* Last index of the run of lexemes of class cls that starts at i (i - 1: none).
RunEnd(s, i, cls) ==
  LET bad == {m \in i..Len(s) : s[m] \notin cls}
  IN  IF bad = {} THEN Len(s) ELSE SetMin(bad) - 1

\* \{([^}]+)\} with the "{" at b: the index of the closing "}", or 0.
ArgEnd(s, b) ==
  LET closes == {k \in (b + 1)..Len(s) : s[k] = "}"}
  IN  IF TokAt(s, b) # "{" \/ closes = {} THEN 0
      ELSE IF SetMin(closes) >= b + 2 THEN SetMin(closes) ELSE 0

Digits == {"0", "1", "2", "3", "4", "5", "6", "7", "8", "9"}

\* \\subsection\{第 (\d+) 页\} at i
PageHeaderAt(s, i) ==
  /\ MatchAt(s, i, <<BS, "subsection", "{", "<di>", " ">>)
  /\ TokAt(s, i + 5) \in Digits
  /\ MatchAt(s, i + 6, <<" ", "<ye>", "}">>)

NoMatch == [e |-> 0, out |-> <<>>]

\* One pattern of a re.sub tried at position i: the index of the last lexeme
\* matched (0: no match here) and the replacement.
\*   cmdarg    \\NAME\{([^}]+)\}  for NAME in rule.names  ->  l \1 r
\*   anyarg    \\[CLASS]+\{([^}]+)\}  for the class rule.names  ->  l \1 r
\*   unescape  \\([&%$#_{}])  ->  \1
\*   lit       \\textbackslash  ->  rule.l
\*   cmd       \\[a-zA-Z]+  ->  ''
\*   pagehdr   \\subsection\{第 \d+ 页\}\s*\n\s*  ->  ''
MatchRule(rule, s, i) ==
  IF TokAt(s, i) # BS THEN NoMatch
  ELSE CASE rule.kind = "cmdarg" ->
         IF TokAt(s, i + 1) \in rule.names /\ ArgEnd(s, i + 2) > 0
         THEN [e |-> ArgEnd(s, i + 2),
               out |-> rule.l \o SubSeq(s, i + 3, ArgEnd(s, i + 2) - 1) \o rule.r]
         ELSE NoMatch
       [] rule.kind = "anyarg" ->
         LET m == RunEnd(s, i + 1, rule.names)
         IN  IF m >= i + 1 /\ ArgEnd(s, m + 1) > 0
             THEN [e |-> ArgEnd(s, m + 1),
                   out |-> rule.l \o SubSeq(s, m + 2, ArgEnd(s, m + 1) - 1) \o rule.r]
             ELSE NoMatch
       [] rule.kind = "unescape" ->
         IF TokAt(s, i + 1) \in Specials
         THEN [e |-> i + 1, out |-> <<s[i + 1]>>]
         ELSE NoMatch
       [] rule.kind = "lit" ->
         IF TokAt(s, i + 1) = "textbackslash"
         THEN [e |-> i + 1, out |-> rule.l]
         ELSE NoMatch
       [] rule.kind = "cmd" ->
         LET m == RunEnd(s, i + 1, rule.names)
         IN  IF m >= i + 1 THEN [e |-> m, out |-> <<>>] ELSE NoMatch
       [] rule.kind = "pagehdr" ->
         LET w == RunEnd(s, i + 9, {" ", "\n", "\t", "\r", "<0B>", "<0C>", "<1C>", "<1F>"})
         IN  IF PageHeaderAt(s, i) /\ \E k \in (i + 9)..w : s[k] = "\n"
             THEN [e |-> w, out |-> <<>>]
             ELSE NoMatch
       [] OTHER -> NoMatch

RECURSIVE SubFrom(_, _, _)
SubFrom(rule, s, i) ==
  IF i > Len(s) THEN <<>>
  ELSE LET m == MatchRule(rule, s, i)
       IN  IF m.e > 0 THEN m.out \o SubFrom(rule, s, m.e + 1)
           ELSE <<s[i]>> \o SubFrom(rule, s, i + 1)

\* re.sub(pattern, repl, s): every non-overlapping match, left to right
re_sub(rule, s) == SubFrom(rule, s, 1)

Rule(kind, names, l, r) == [kind |-> kind, names |-> names, l |-> l, r |-> r]

\* The replacement template of a re.sub is compiled before any match is tried:
\* a template that ends in a lone backslash is a bad escape and re.sub raises
\* re.error whether or not the pattern occurs; the template r'\\' (two
\* backslashes) stands for one backslash.
TemplateRaises(template) ==
  LET trailing == {k \in 0..Len(template) :
                     \A j \in (Len(template) - k + 1)..Len(template) : template[j] = BS}
  IN  SetMax(trailing) % 2 = 1

TemplateText(template) == IF template = <<BS, BS>> THEN <<BS>> ELSE template

\* ------------------------------------------------------- block splitting
BeginFigure == <<BS, "begin", "{", "figure", "}">>
EndFigure == <<BS, "end", "{", "figure", "}">>

\* The split pattern at i, heads being the header commands it names:
\* (\\begin\{figure\}.*?\\end\{figure\}|\\section\{[^}]+\}|...), DOTALL.
\* The index of the last lexeme matched, or 0.
DelimEnd(s, i, heads) ==
  IF MatchAt(s, i, BeginFigure)
  THEN LET ends == {j \in (i + 5)..Len(s) : MatchAt(s, j, EndFigure)}
       IN  IF ends = {} THEN 0 ELSE SetMin(ends) + 4
  ELSE IF TokAt(s, i) = BS /\ TokAt(s, i + 1) \in heads THEN ArgEnd(s, i + 2)
  ELSE 0

RECURSIVE SplitFrom(_, _, _, _)
SplitFrom(s, i, start, heads) ==
  IF i > Len(s) THEN <<SubSeq(s, start, Len(s))>>
  ELSE LET e == DelimEnd(s, i, heads)
       IN  IF e > 0
           THEN <<SubSeq(s, start, i - 1), SubSeq(s, i, e)>> \o SplitFrom(s, e + 1, e + 1, heads)
           ELSE SplitFrom(s, i + 1, start, heads)

\* re.split with one capturing group: the texts between the delimiters and
\* the delimiters themselves, in order
content_blocks(page_content, heads) == SplitFrom(page_content, 1, 1, heads)

RECURSIVE SplitLinesFrom(_, _, _)
SplitLinesFrom(s, i, start) ==
  IF i > Len(s) THEN <<SubSeq(s, start, Len(s))>>
  ELSE IF s[i] = "\n" THEN <<SubSeq(s, start, i - 1)>> \o SplitLinesFrom(s, i + 1, i + 1)
  ELSE SplitLinesFrom(s, i + 1, start)

\* block.split('\n')
SplitLines(block) == SplitLinesFrom(block, 1, 1)

\* re.search(r'\\includegraphics.*?\{([^}]+)\}', block): group 1, or <<>> when
\* there is no match.  "." does not match a newline here.
img_match(block) ==
  LET cands == {p \in (1..Len(block)) \X (1..Len(block)) :
                  /\ MatchAt(block, p[1], <<BS, "includegraphics">>)
                  /\ p[2] >= p[1] + 2
                  /\ \A k \in (p[1] + 2)..(p[2] - 1) : block[k] # "\n"
                  /\ ArgEnd(block, p[2]) > 0}
      firsts == {p[1] : p \in cands}
  IN  IF cands = {} THEN <<>>
      ELSE LET i == SetMin(firsts)
               b == SetMin({p[2] : p \in {q \in cands : q[1] = i}})
           IN  SubSeq(block, b + 1, ArgEnd(block, b) - 1)

\* re.search(r'\\caption\{([^}]+)\}', block): group 1, or <<>>
caption_match(block) ==
  LET at == {i \in 1..Len(block) :
               MatchAt(block, i, <<BS, "caption">>) /\ ArgEnd(block, i + 2) > 0}
  IN  IF at = {} THEN <<>>
      ELSE SubSeq(block, SetMin(at) + 3, ArgEnd(block, SetMin(at) + 2) - 1)

RECURSIVE Concat(_)
\* the characters of a lexeme sequence as one string
Concat(s) == IF s = <<>> THEN "" ELSE Head(s) \o Concat(Tail(s))

\* re.search(r'\\subsection\{第 (\d+) 页\}', page_content): group 1, or "" 
page_match(page_content) ==
  LET at == {i \in 1..Len(page_content) : PageHeaderAt(page_content, i)}
  IN  IF at = {} THEN "" ELSE page_content[SetMin(at) + 5]

\* ------------------------------------------------------------- exporters

\* One element of an exported document: an html tag or a python-docx call.
\*   heading  <h1>/<h2>/<h3>, doc.add_heading(text, level)
\*   p        <p>text</p>, doc.add_paragraph(text)
\*   caption  <p style="text-align:center;...">, a paragraph of style 'Caption'
\*   img      <img src=...>, doc.add_picture(path)
\*   break    doc.add_page_break()
El(kind, level, text) == [kind |-> kind, level |-> level, text |-> text]

DocTitle == <<"<wendang-chuli-jieguo>">>
PageTitle(n) == <<"<di>", " ", n, " ", "<ye>">>

\* line.startswith('\\text')
StartsWithText(line) == TokAt(line, 1) = BS /\ TokAt(line, 2) \in TextPrefixed

\* 'sub' in block: the lexemes of the model that contain the characters "sub"
HasSub(block) == \E i \in 1..Len(block) : block[i] \in {"subsection", "subsubsection", "substance"}

LowerLetters == Letters \ {"Alpha", "Intro"}

\* img_rel_path.replace(os.sep, '_'): the name of the copy beside the html file
CopyName(path) == "copy_of_" \o path

Emit(acc, els) == [acc EXCEPT !.elems = @ \o els]

\* `import re` at line 425 makes `re` a local name of process_all_images, bound
\* only once that line has run: in the docx branch.  The html and pdf branches
\* use `re` (lines 307, 378) before any binding, which raises UnboundLocalError
\* in the first iteration of their page loop.
re_bound(branch) == branch = "docx"

\* ---- html (lines 304-360).  acc: raises, elems (html_parts), copies (the
\* files shutil.copy2 wrote).  A step after an exception does nothing.
HtmlLine(acc, line0) ==
  LET line == Strip(line0)
      t1 == re_sub(Rule("cmdarg", {"textbf"}, <<"<strong>">>, <<"</strong>">>), line)
      t2 == re_sub(Rule("cmdarg", {"textit"}, <<"<em>">>, <<"</em>">>), t1)
      t3 == re_sub(Rule("unescape", {}, <<>>, <<>>), t2)
      t4 == re_sub(Rule("lit", {}, TemplateText(<<BS>>), <<>>), t3)
      t5 == re_sub(Rule("anyarg", Letters, <<>>, <<>>), t4)
      t6 == re_sub(Rule("cmd", Letters, <<>>, <<>>), t5)
  IN  IF acc.raises THEN acc
      ELSE IF line = <<>> \/ (StartsWith(line, <<BS>>) /\ ~StartsWithText(line)) THEN acc
      ELSE IF TemplateRaises(<<BS>>) THEN [acc EXCEPT !.raises = TRUE]
      ELSE IF Strip(t6) # <<>> THEN Emit(acc, <<El("p", 0, Strip(t6))>>)
      ELSE acc

RECURSIVE HtmlLines(_, _, _)
\* for line in lines: ...
HtmlLines(acc, lines, i) ==
  IF i > Len(lines) THEN acc ELSE HtmlLines(HtmlLine(acc, lines[i]), lines, i + 1)

HtmlBlock(acc, block, disk) ==
  LET g == img_match(block)
      c == caption_match(block)
      there == g # <<>> /\ Concat(g) \in disk
  IN  IF acc.raises \/ Strip(block) = <<>> THEN acc
      ELSE IF Contains(block, BeginFigure) THEN
        [acc EXCEPT !.elems = @ \o (IF there THEN <<El("img", 0, <<CopyName(Concat(g))>>)>> ELSE <<>>)
                                \o (IF c # <<>> THEN <<El("caption", 0, c)>> ELSE <<>>),
                    !.copies = IF there THEN @ \cup {CopyName(Concat(g))} ELSE @]
      ELSE IF StartsWith(block, <<BS, "section", "{">>) THEN
        Emit(acc, <<El("heading", 2, Strip(re_sub(Rule("cmdarg", {"section"}, <<>>, <<>>), block)))>>)
      ELSE IF StartsWith(block, <<BS, "subsection", "{">>) THEN
        Emit(acc, <<El("heading", 3, Strip(re_sub(Rule("cmdarg", {"subsection"}, <<>>, <<>>), block)))>>)
      ELSE HtmlLines(acc, SplitLines(block), 1)

\* the page title, when the page header is found, and the content without it
PageHead(acc, page_content) ==
  IF page_match(page_content) # ""
  THEN Emit(acc, <<El("heading", 2, PageTitle(page_match(page_content)))>>)
  ELSE acc

PageRest(page_content) ==
  IF page_match(page_content) # ""
  THEN re_sub(Rule("pagehdr", {}, <<>>, <<>>), page_content)
  ELSE page_content

RECURSIVE HtmlBlocks(_, _, _, _)
\* for block in content_blocks: ...
HtmlBlocks(acc, blocks, i, disk) ==
  IF i > Len(blocks) THEN acc ELSE HtmlBlocks(HtmlBlock(acc, blocks[i], disk), blocks, i + 1, disk)

HtmlPage(acc, page_content, disk) ==
  IF acc.raises THEN acc
  ELSE IF ~re_bound("html") THEN [acc EXCEPT !.raises = TRUE]
  ELSE HtmlBlocks(PageHead(acc, page_content),
                  content_blocks(PageRest(page_content), {"section", "subsection"}), 1, disk)

RECURSIVE HtmlPages(_, _, _, _)
\* for page_content in all_latex_content: ...
HtmlPages(acc, all, i, disk) ==
  IF i > Len(all) THEN acc ELSE HtmlPages(HtmlPage(acc, all[i], disk), all, i + 1, disk)

html_parts(all, disk) ==
  HtmlPages([raises |-> FALSE, elems |-> <<El("heading", 1, DocTitle)>>, copies |-> {}],
            all, 1, disk)

\* ---- pdf via docx (lines 368-414).  pic_ok: doc.add_picture does not raise.
PdfLine(acc, line0) ==
  LET line == Strip(line0)
      t1 == re_sub(Rule("anyarg", Letters, <<>>, <<>>), line)
      t2 == re_sub(Rule("cmd", Letters, <<>>, <<>>), t1)
  IN  IF line # <<>> /\ ~StartsWith(line, <<BS>>) /\ Strip(t2) # <<>>
      THEN Emit(acc, <<El("p", 0, Strip(t2))>>)
      ELSE acc

RECURSIVE PdfLines(_, _, _)
\* for line in block.split('\n'): ...
PdfLines(acc, lines, i) ==
  IF i > Len(lines) THEN acc ELSE PdfLines(PdfLine(acc, lines[i]), lines, i + 1)

PdfHeadingLevel(block) == IF HasSub(block) THEN 2 ELSE 1

PdfBlock(acc, block, disk, pic_ok) ==
  LET g == img_match(block)
  IN  IF Strip(block) = <<>> THEN acc
      ELSE IF Contains(block, BeginFigure) THEN
        (IF g # <<>> /\ Concat(g) \in disk /\ pic_ok
         THEN Emit(acc, <<El("img", 0, <<Concat(g)>>)>>) ELSE acc)
      ELSE IF StartsWith(block, <<BS, "section", "{">>) \/ StartsWith(block, <<BS, "subsection", "{">>) THEN
        Emit(acc, <<El("heading", PdfHeadingLevel(block),
                       Strip(re_sub(Rule("anyarg", LowerLetters, <<>>, <<>>), block)))>>)
      ELSE PdfLines(acc, SplitLines(block), 1)

RECURSIVE PdfBlocks(_, _, _, _, _)
\* for block in content_blocks: ...
PdfBlocks(acc, blocks, i, disk, pic_ok) ==
  IF i > Len(blocks) THEN acc
  ELSE PdfBlocks(PdfBlock(acc, blocks[i], disk, pic_ok), blocks, i + 1, disk, pic_ok)

PdfPage(acc, page_content, disk, pic_ok) ==
  IF acc.raises THEN acc
  ELSE IF ~re_bound("pdf") THEN [acc EXCEPT !.raises = TRUE]
  ELSE Emit(PdfBlocks(PageHead(acc, page_content),
                      content_blocks(PageRest(page_content), {"section", "subsection"}),
                      1, disk, pic_ok),
            <<El("break", 0, <<>>)>>)

RECURSIVE PdfPages(_, _, _, _, _)
\* for page_content in all_latex_content: ...
PdfPages(acc, all, i, disk, pic_ok) ==
  IF i > Len(all) THEN acc
  ELSE PdfPages(PdfPage(acc, all[i], disk, pic_ok), all, i + 1, disk, pic_ok)

pdf_doc(all, disk, pic_ok) ==
  PdfPages([raises |-> FALSE, elems |-> <<El("heading", 0, DocTitle)>>, copies |-> {}],
           all, 1, disk, pic_ok)

\* ---- docx (lines 421-518)
DocxLine(acc, line0) ==
  LET line == Strip(line0)
      t1 == re_sub(Rule("cmdarg", {"textbf"}, <<>>, <<>>), line)
      t2 == re_sub(Rule("cmdarg", {"textit"}, <<>>, <<>>), t1)
      t3 == re_sub(Rule("cmdarg", {"emph"}, <<>>, <<>>), t2)
      t4 == re_sub(Rule("cmdarg", {"text"}, <<>>, <<>>), t3)
      t5 == re_sub(Rule("unescape", {}, <<>>, <<>>), t4)
      t6 == re_sub(Rule("lit", {}, TemplateText(<<BS, BS>>), <<>>), t5)
      t7 == re_sub(Rule("anyarg", Letters, <<>>, <<>>), t6)
      t8 == re_sub(Rule("cmd", Letters, <<>>, <<>>), t7)
  IN  IF acc.raises THEN acc
      ELSE IF line = <<>> THEN Emit(acc, <<El("p", 0, <<>>)>>)
      ELSE IF StartsWith(line, <<BS>>) /\ ~StartsWithText(line) THEN acc
      ELSE IF StartsWith(line, <<"|">>) \/ Contains(line, <<BS, "begin", "{", "table", "}">>)
           THEN Emit(acc, <<El("p", 0, line)>>)
      ELSE IF TemplateRaises(<<BS, BS>>) THEN [acc EXCEPT !.raises = TRUE]
      ELSE IF Strip(t8) # <<>> THEN Emit(acc, <<El("p", 0, Strip(t8))>>)
      ELSE acc

RECURSIVE DocxLines(_, _, _)
\* for line in lines: ...
DocxLines(acc, lines, i) ==
  IF i > Len(lines) THEN acc ELSE DocxLines(DocxLine(acc, lines[i]), lines, i + 1)

DocxBlock(acc, block, disk, pic_ok) ==
  LET g == img_match(block)
      c == caption_match(block)
  IN  IF acc.raises \/ Strip(block) = <<>> THEN acc
      ELSE IF Contains(block, BeginFigure) THEN
        (IF g # <<>> /\ Concat(g) \in disk
         THEN (IF pic_ok
               THEN Emit(acc, <<El("img", 0, <<Concat(g)>>)>>
                              \o (IF c # <<>> THEN <<El("caption", 0, c)>> ELSE <<>>))
               ELSE Emit(acc, <<El("p", 0, <<"[", "<tupian>", ":", " ", Concat(g), "]">>)>>))
         ELSE acc)
      ELSE IF StartsWith(block, <<BS, "section", "{">>) THEN
        Emit(acc, <<El("heading", 1, Strip(re_sub(Rule("cmdarg", {"section"}, <<>>, <<>>), block)))>>)
      ELSE IF StartsWith(block, <<BS, "subsection", "{">>) THEN
        Emit(acc, <<El("heading", 2, Strip(re_sub(Rule("cmdarg", {"subsection"}, <<>>, <<>>), block)))>>)
      ELSE IF StartsWith(block, <<BS, "subsubsection", "{">>) THEN
        Emit(acc, <<El("heading", 3, Strip(re_sub(Rule("cmdarg", {"subsubsection"}, <<>>, <<>>), block)))>>)
      ELSE DocxLines(acc, SplitLines(block), 1)

RECURSIVE DocxBlocks(_, _, _, _, _)
\* for block in content_blocks: ...
DocxBlocks(acc, blocks, i, disk, pic_ok) ==
  IF i > Len(blocks) THEN acc
  ELSE DocxBlocks(DocxBlock(acc, blocks[i], disk, pic_ok), blocks, i + 1, disk, pic_ok)

DocxPage(acc, page_content, disk, pic_ok) ==
  IF acc.raises THEN acc
  ELSE IF ~re_bound("docx") THEN [acc EXCEPT !.raises = TRUE]
  ELSE LET a == DocxBlocks(PageHead(acc, page_content),
                           content_blocks(PageRest(page_content),
                                          {"section", "subsection", "subsubsection"}),
                           1, disk, pic_ok)
       IN  IF a.raises THEN a ELSE Emit(a, <<El("break", 0, <<>>)>>)

RECURSIVE DocxPages(_, _, _, _, _)
\* for page_content in all_latex_content: ...
DocxPages(acc, all, i, disk, pic_ok) ==
  IF i > Len(all) THEN acc
  ELSE DocxPages(DocxPage(acc, all[i], disk, pic_ok), all, i + 1, disk, pic_ok)

docx_doc(all, disk, pic_ok) ==
  DocxPages([raises |-> FALSE, elems |-> <<El("heading", 0, DocTitle)>>, copies |-> {}],
            all, 1, disk, pic_ok)

\* ---- tex (lines 529-569): the preamble, the body verbatim, \end{document}
body_content(all) == Join(all, <<"\n", "\n", BS, "newpage", "\n", "\n">>)

latex_document(all) ==
  <<"<preamble>", "\n", "\n">> \o body_content(all)
    \o <<"\n", "\n", BS, "end", "{", "document", "}">>

\* ------------------------------------------------------------------ state
VARIABLES
  pc,                 \* position in process_all_images (or in the single call)
  requested,          \* the output_format argument
  output_format,      \* the local output_format, reassigned by the fallbacks
  num_pages,          \* len(image_files)
  page_index,         \* the page loop's counter (1-based)
  all_latex_content,  \* the page bodies with their page header
  disk,               \* the files that exist under the output folder
  outputs,            \* the documents this call wrote: path and content
  attempts,           \* the format generations started, in order, each with
                      \* what made it fail ("none": it did not fail)
  result,             \* the returned path, None, or "" while running
  pages               \* per processed page: its input and what it produced

vars == <<pc, requested, output_format, num_pages, page_index, all_latex_content,
          disk, outputs, attempts, result, pages>>

Formats == {"html", "docx", "pdf", "tex"}

\* app.py: output_path = output_name + format_extensions[output_format];
\* Path.with_suffix replaces that extension.
OutPath(ext) == "out" \o ext
output_path == OutPath("." \o requested)

\* f"\\subsection{{第 {page_index} 页}}\n\n{latex_content}"
PageEntry(n, latex_content) ==
  <<BS, "subsection", "{", "<di>", " ", ToString(n), " ", "<ye>", "}", "\n", "\n">> \o latex_content

\* ------------------------------------------------------------ input pools
Img == [w |-> 4, h |-> 4]

Reg(type, bbox, res, ocr, api, imwrite) ==
  [idx |-> 0, type |-> type, bbox |-> bbox, res |-> res, ocr |-> ocr, api |-> api,
   imwrite |-> imwrite]

WithIdx(rs) == [i \in 1..Len(rs) |-> [rs[i] EXCEPT !.idx = i]]

Page(rs) == [readable |-> TRUE, detect_ok |-> TRUE, img |-> Img, regions |-> WithIdx(rs)]
Unreadable == [readable |-> FALSE, detect_ok |-> TRUE, img |-> Img, regions |-> <<>>]
DetectFails == [readable |-> TRUE, detect_ok |-> FALSE, img |-> Img, regions |-> <<>>]

Api(kind, text) == [kind |-> kind, text |-> text]
NoOcr == [raises |-> TRUE, lines |-> <<>>]
NoApi == Api("status", <<>>)

OcrPlain == <<"Alpha", " ", "beta">>
\* cleanup-service answers: a section header and a paragraph with an escaped
\* "&"; a paragraph that starts with an escaped "$"
AnsSection == <<BS, "section", "{", "Intro", "}", "\n", "Alpha", " ", BS, "&", " ", "beta">>
AnsDollar == <<BS, "$", "5", " ", "fee">>
\* a section whose title holds the letters "sub", and a subsection
AnsHeaders ==
  <<BS, "section", "{", "substance", "}", "\n", "\n", BS, "subsection", "{", "Intro", "}">>

RunTexts ==
  {Reg("text", <<0, 0, 4, 2>>, <<OcrPlain>>, NoOcr, Api("ok", a), "ok") : a \in {AnsSection, AnsDollar, AnsHeaders}}
RunFigs ==
  {Reg("figure", <<0, 2, 4, 4>>, <<>>, NoOcr, NoApi, w) : w \in {"ok", "false"}}

RunPages ==
  {Unreadable, DetectFails, Page(<<>>)}
    \cup {Page(<<t>>) : t \in RunTexts}
    \cup {Page(<<f>>) : f \in RunFigs}
    \cup {Page(<<f, t>>) : f \in RunFigs, t \in {x \in RunTexts : x.api.text = AnsSection}}

\* ------------------------------------------------------ process_all_images
Init ==
  /\ pc = "start"
  /\ requested \in Formats
  /\ output_format = requested
  /\ num_pages = 0
  /\ page_index = 1
  /\ all_latex_content = <<>>
  /\ disk = {}
  /\ outputs = {}
  /\ attempts = <<>>
  /\ result = ""
  /\ pages = <<>>

\* lines 276-283: no image file in the folder, `return`
NoImages ==
  /\ pc = "start"
  /\ pc' = "returned"
  /\ result' = None
  /\ UNCHANGED <<requested, output_format, num_pages, page_index, all_latex_content,
                 disk, outputs, attempts, pages>>

\* lines 276-287: n image files found
FoundImages ==
  /\ pc = "start"
  /\ \E n \in 1..MaxPages : num_pages' = n
  /\ pc' = "pages"
  /\ UNCHANGED <<requested, output_format, page_index, all_latex_content,
                 disk, outputs, attempts, result, pages>>

\* lines 290-296: one iteration of the page loop
ProcessPage(pool) ==
  /\ pc = "pages"
  /\ \E sc \in pool : \E out \in {process_single_image(sc, page_index)} :
           /\ all_latex_content' =
                IF Strip(out.body) # <<>>
                THEN Append(all_latex_content, PageEntry(page_index, out.body))
                ELSE all_latex_content
           /\ disk' = disk \cup out.acc.saved
           /\ pages' = Append(pages, [page_index |-> page_index, sc |-> sc, out |-> out])
  /\ IF page_index = num_pages
     THEN pc' = "first" /\ page_index' = page_index
     ELSE pc' = "pages" /\ page_index' = page_index + 1
  /\ UNCHANGED <<requested, output_format, num_pages, outputs, attempts, result>>

Attempt(fmt, fault) == [fmt |-> fmt, fault |-> fault]

\* the variant of the html handler that continues with docx
HtmlExceptDocx == "docx"

\* the format each except clause continues with (lines 364, 417, 521/527)
html_except_format == "tex"
pdf_except_format == "html"
docx_except_format == "tex"

\* lines 301-364: `if output_format == 'html'`.  write_ok: open/write succeed.
ExportHtml ==
  /\ pc = "first" /\ output_format = "html"
  /\ \E write_ok \in BOOLEAN : \E h \in {html_parts(all_latex_content, disk)} :
        /\ attempts' = Append(attempts, Attempt("html", IF h.raises THEN "raise"
                                                        ELSE IF write_ok THEN "none" ELSE "write"))
        /\ IF ~h.raises /\ write_ok
           THEN /\ disk' = disk \cup h.copies \cup {OutPath(".html")}
                /\ outputs' = outputs \cup {[path |-> OutPath(".html"), elems |-> h.elems]}
                /\ result' = OutPath(".html")
                /\ pc' = "returned"
                /\ UNCHANGED output_format
           ELSE /\ disk' = disk \cup h.copies
                /\ output_format' = html_except_format
                /\ pc' = "second"
                /\ UNCHANGED <<outputs, result>>
  /\ UNCHANGED <<requested, num_pages, page_index, all_latex_content, pages>>

\* What the document-writing capability does in one try block: "none" works,
\* "import" `from docx import Document` raises ImportError, "construct"
\* Document() raises, "save" doc.save raises.
DocxFaults == {"none", "import", "construct", "save"}

\* What ends the try block: the import or the constructor, else an exception
\* in the page loop ("raise"), else doc.save.
Raised(fault, d) ==
  IF fault \in {"import", "construct"} THEN fault
  ELSE IF d.raises THEN "raise"
  ELSE fault

\* lines 366-417: `elif output_format == 'pdf'`
ExportPdf ==
  /\ pc = "first" /\ output_format = "pdf"
  /\ \E fault \in DocxFaults, pic_ok \in BOOLEAN :
      \E d \in {pdf_doc(all_latex_content, disk, pic_ok)} :
        /\ attempts' = Append(attempts, Attempt("pdf", Raised(fault, d)))
        /\ IF fault = "none" /\ ~d.raises
           THEN /\ disk' = disk \cup {OutPath(".docx")}
                /\ outputs' = outputs \cup {[path |-> OutPath(".docx"), elems |-> d.elems]}
                /\ result' = OutPath(".docx")
                /\ pc' = "returned"
                /\ UNCHANGED output_format
           ELSE /\ output_format' = pdf_except_format
                /\ pc' = "second"
                /\ UNCHANGED <<disk, outputs, result>>
  /\ UNCHANGED <<requested, num_pages, page_index, all_latex_content, pages>>

\* neither branch of the if/elif at lines 301/366 is taken
SkipFirst ==
  /\ pc = "first" /\ output_format \notin {"html", "pdf"}
  /\ pc' = "second"
  /\ UNCHANGED <<requested, output_format, num_pages, page_index, all_latex_content,
                 disk, outputs, attempts, result, pages>>

\* lines 419-527: `if output_format == 'docx'`
ExportDocx ==
  /\ pc = "second" /\ output_format = "docx"
  /\ \E fault \in DocxFaults, pic_ok \in BOOLEAN :
      \E d \in {docx_doc(all_latex_content, disk, pic_ok)} :
        /\ attempts' = Append(attempts, Attempt("docx", Raised(fault, d)))
        /\ IF fault = "none" /\ ~d.raises
           THEN /\ disk' = disk \cup {output_path}
                /\ outputs' = outputs \cup {[path |-> output_path, elems |-> d.elems]}
                /\ result' = output_path
                /\ pc' = "returned"
                /\ UNCHANGED output_format
           ELSE /\ output_format' = docx_except_format
                /\ pc' = "third"
                /\ UNCHANGED <<disk, outputs, result>>
  /\ UNCHANGED <<requested, num_pages, page_index, all_latex_content, pages>>

\* line 419 is false
SkipDocx ==
  /\ pc = "second" /\ output_format # "docx"
  /\ pc' = "third"
  /\ UNCHANGED <<requested, output_format, num_pages, page_index, all_latex_content,
                 disk, outputs, attempts, result, pages>>

\* Whether the tex stage has a handler around its writes (it has none).
tex_write_guarded == FALSE

\* lines 529-569: `if output_format == 'tex'`.  w: both files are written
\* ("ok"), opening the .tex file raises ("fail_tex"), or the .tex file is
\* written and opening the .tex.content file raises ("fail_content").
ExportTex ==
  /\ pc = "third" /\ output_format = "tex"
  /\ \E w \in {"ok", "fail_tex", "fail_content"} :
       LET tex == [path |-> OutPath(".tex"),
                   elems |-> <<El("tex", 0, latex_document(all_latex_content))>>]
           content == [path |-> OutPath(".tex.content"),
                       elems |-> <<El("tex", 0, body_content(all_latex_content))>>]
       IN  /\ attempts' = Append(attempts, Attempt("tex", IF w = "ok" THEN "none" ELSE "write"))
           /\ outputs' = outputs \cup (IF w = "fail_tex" THEN {} ELSE {tex})
                                 \cup (IF w = "ok" THEN {content} ELSE {})
           /\ disk' = disk \cup (IF w = "fail_tex" THEN {} ELSE {tex.path})
                           \cup (IF w = "ok" THEN {content.path} ELSE {})
           /\ IF w = "ok"
              THEN pc' = "returned" /\ result' = OutPath(".tex")
              ELSE IF tex_write_guarded
              THEN pc' = "returned" /\ result' = None
              ELSE pc' = "raised" /\ result' = result
  /\ UNCHANGED <<requested, output_format, num_pages, page_index, all_latex_content, pages>>

\* line 529 is false: the function ends without a return statement
FallOffEnd ==
  /\ pc = "third" /\ output_format # "tex"
  /\ pc' = "returned"
  /\ result' = None
  /\ UNCHANGED <<requested, output_format, num_pages, page_index, all_latex_content,
                 disk, outputs, attempts, pages>>

RunPage == ProcessPage(RunPages)

Next ==
  \/ NoImages
  \/ FoundImages
  \/ RunPage
  \/ ExportHtml
  \/ ExportPdf
  \/ SkipFirst
  \/ ExportDocx
  \/ SkipDocx
  \/ ExportTex
  \/ FallOffEnd

Spec == Init /\ [][Next]_vars

\* ----------------------------------------------- one process_single_image
\* The regions a page may hold: text and title regions at boxes that differ
\* in the top edge, in the left edge, or in neither; OCR text with and without
\* control characters; every outcome of the cleanup request; visual regions
\* with every outcome of the image write; boxes that are degenerate, outside
\* the image, or missing.
Boxes == {<<0, 0, 2, 2>>, <<2, 0, 4, 2>>, <<0, 2, 2, 4>>}
OcrMixed == <<<<"Alpha", "<01>">>, <<"<0B>", "beta">>>>

PageRegions ==
  {Reg("text", b, <<OcrPlain>>, NoOcr, NoApi, "ok") : b \in Boxes}
    \cup {Reg("title", <<0, 0, 2, 2>>, OcrMixed, NoOcr, a, "ok") :
            a \in {Api("ok", AnsSection), Api("exception", <<>>),
                   Api("timeout", <<>>), Api("badjson", <<>>)}}
    \cup {Reg("text", <<0, 0, 2, 2>>, <<<<"<01>">>>>, NoOcr, NoApi, "ok"),
          Reg("text", <<0, 0, 2, 2>>, <<<<"<0B>">>>>, NoOcr, NoApi, "ok"),
          Reg("text", <<0, 2, 2, 4>>, <<>>, [raises |-> FALSE, lines |-> <<OcrPlain>>],
              Api("ok", AnsDollar), "ok"),
          Reg("text", <<1, 1, 1, 3>>, <<OcrPlain>>, NoOcr, NoApi, "ok"),
          Reg("text", <<>>, <<OcrPlain>>, NoOcr, NoApi, "ok")}
    \cup {Reg("figure", b, <<>>, NoOcr, NoApi, "ok") : b \in Boxes}
    \cup {Reg("table", <<0, 0, 2, 2>>, <<>>, NoOcr, NoApi, w) : w \in {"false", "raise"}}
    \cup {Reg("formula", <<3, 3, 9, 9>>, <<>>, NoOcr, NoApi, "ok"),
          Reg("image", <<1, 1, 1, 3>>, <<>>, NoOcr, NoApi, "ok"),
          Reg("unknown", <<0, 0, 2, 2>>, <<>>, NoOcr, NoApi, "ok")}

PagePool ==
  {Unreadable, DetectFails}
    \cup UNION {{Page(rs) : rs \in [1..k -> PageRegions]} : k \in 0..MaxRegions}

InitPage ==
  /\ pc = "page"
  /\ requested = "tex"
  /\ output_format = "tex"
  /\ num_pages = MaxPages
  /\ page_index \in 1..MaxPages
  /\ all_latex_content = <<>>
  /\ disk = {}
  /\ outputs = {}
  /\ attempts = <<>>
  /\ result = ""
  /\ pages = <<>>

\* lines 109-245: process_single_image(image_path, ..., page_index)
CallPage ==
  /\ pc = "page"
  /\ \E sc \in PagePool : \E out \in {process_single_image(sc, page_index)} :
        /\ pages' = <<[page_index |-> page_index, sc |-> sc, out |-> out]>>
        /\ disk' = out.acc.saved
  /\ pc' = "page_done"
  /\ UNCHANGED <<requested, output_format, num_pages, page_index, all_latex_content,
                 outputs, attempts, result>>

NextPage == CallPage

SpecPage == InitPage /\ [][NextPage]_vars

\* ------------------------------------------------------------- properties
Failed(i) == attempts[i].fault # "none"
Wrote(path) == \E o \in outputs : o.path = path
CountEl(elems, kind, text) ==
  Cardinality({i \in DOMAIN elems : elems[i].kind = kind /\ elems[i].text = text})
CountKind(elems, kind) == Cardinality({i \in DOMAIN elems : elems[i].kind = kind})

\* the document-writing capability failed in every stage that used it, and
\* nothing else went wrong
CapabilityAlwaysFails ==
  /\ \E i \in DOMAIN attempts : attempts[i].fmt \in {"pdf", "docx"}
  /\ \A i \in DOMAIN attempts :
       IF attempts[i].fmt \in {"pdf", "docx"}
       THEN attempts[i].fault \in {"import", "construct", "save"}
       ELSE attempts[i].fault # "write"

\* neither the document-writing capability nor a file write failed
NoExternalFault ==
  \A i \in DOMAIN attempts : attempts[i].fault \notin {"import", "construct", "save", "write"}

\* C1: with at least one non-blank page body and a document-writing
\* capability that always fails, a finished run that requested pdf has written
\* and returned the .html file, and one that requested docx has written and
\* returned the .tex file.
C1_FallbackChain ==
  (/\ pc \in {"returned", "raised"}
   /\ all_latex_content # <<>>
   /\ requested \in {"pdf", "docx"}
   /\ CapabilityAlwaysFails)
  => /\ pc = "returned"
     /\ result = OutPath(IF requested = "pdf" THEN ".html" ELSE ".tex")
     /\ Wrote(result)

\* C2: a failed html generation is followed by the tex stage and by nothing
\* else, and a run that returns after it returns the written .tex file; the tex
\* stage is the last one attempted, and a failure in it ends the call with the
\* error raised and no value returned.
C2_HtmlFailsToTexTerminal ==
  /\ \A i \in DOMAIN attempts :
       (attempts[i].fmt = "html" /\ Failed(i)) =>
         IF i < Len(attempts) THEN attempts[i + 1].fmt = "tex"
         ELSE pc \in {"second", "third"} /\ output_format = "tex"
  /\ (pc = "returned" /\ \E i \in DOMAIN attempts : attempts[i].fmt = "html" /\ Failed(i))
       => result = OutPath(".tex") /\ Wrote(result)
  /\ \A i \in DOMAIN attempts :
       attempts[i].fmt = "tex" =>
         /\ i = Len(attempts)
         /\ Failed(i) => pc = "raised" /\ result = ""

\* html generation raised, the tex stage ran next, its write failed and the
\* error left the call
C2_Witness ==
  /\ pc = "raised"
  /\ Len(attempts) = 2
  /\ attempts[1] = Attempt("html", "raise")
  /\ attempts[2] = Attempt("tex", "write")

\* C3: a call that went through the export chain and returned without raising
\* returned the path of a document it wrote, with the extension of the stage
\* that ran last (the pdf stage writes a .docx file).
C3_ReturnsWrittenPath ==
  (pc = "returned" /\ attempts # <<>>)
  => LET last == attempts[Len(attempts)].fmt
     IN  /\ result # None
         /\ Wrote(result)
         /\ result = OutPath(IF last = "pdf" THEN ".docx" ELSE "." \o last)

\* C4: a call that ended with no page body to export (no image file, or only
\* blank page bodies) wrote no output document and returned no document path.
C4_NothingToExport ==
  (pc = "returned" /\ all_latex_content = <<>>)
  => outputs = {} /\ result = None

\* C5: in every page body the fragments are ordered by the top edge of their
\* regions' boxes, then by the left edge, and fragments of regions with the
\* same top and left edge are in the order the layout model returned them.
C5_ReadingOrder ==
  \A k \in DOMAIN pages :
    LET src == pages[k].out.acc.src
        box(i) == pages[k].sc.regions[src[i]].bbox
    IN  /\ pages[k].out.body = Join(pages[k].out.acc.parts, <<"\n", "\n">>)
        /\ Len(src) = Len(pages[k].out.acc.parts)
        /\ \A i, j \in DOMAIN src :
             i < j =>
               \/ box(i)[2] < box(j)[2]
               \/ box(i)[2] = box(j)[2] /\ box(i)[1] < box(j)[1]
               \/ box(i)[2] = box(j)[2] /\ box(i)[1] = box(j)[1] /\ src[i] < src[j]

\* a page whose layout result listed a lower region before a higher one, both
\* of which produced a fragment
C5_Witness ==
  /\ pc = "page_done"
  /\ \E k \in DOMAIN pages :
       LET src == pages[k].out.acc.src
       IN  /\ Len(src) = 2
           /\ src[1] > src[2]
           /\ pages[k].sc.regions[src[1]].bbox[2] < pages[k].sc.regions[src[2]].bbox[2]

\* C6: for a text or title region whose cleanup request failed, one request
\* was made, and the region's fragment is its OCR text with the control
\* characters removed and nothing else changed.
C6_CleanupFallback ==
  \A k \in DOMAIN pages :
    LET acc == pages[k].out.acc
    IN  \A q \in DOMAIN acc.posts :
          LET r == pages[k].sc.regions[acc.posts[q].idx]
          IN  r.api.kind # "ok" =>
                /\ acc.posts[q].n = 1
                /\ Cardinality({j \in DOMAIN acc.posts : acc.posts[j].idx = r.idx}) = 1
                /\ Cardinality({i \in DOMAIN acc.src : acc.src[i] = r.idx}) = 1
                /\ \A i \in DOMAIN acc.src :
                     acc.src[i] = r.idx =>
                       acc.parts[i] = clean_text_for_xml(RegionOcrText(r, pages[k].sc.img))

\* a title region whose OCR text holds control characters and whose cleanup
\* request timed out
C6_Witness ==
  /\ pc = "page_done"
  /\ \E k \in DOMAIN pages :
       \E q \in DOMAIN pages[k].out.acc.posts :
         LET r == pages[k].sc.regions[pages[k].out.acc.posts[q].idx]
         IN  /\ r.api.kind = "timeout"
             /\ RegionOcrText(r, pages[k].sc.img) = <<"Alpha", "<01>", "\n", "<0B>", "beta">>
             /\ pages[k].out.acc.parts = <<<<"Alpha", "\n", "beta">>>>

\* C7: every text submitted to the cleanup service is non-blank and holds no
\* stripped control character.
C7_SubmittedTextClean ==
  \A k \in DOMAIN pages :
    \A q \in DOMAIN pages[k].out.acc.posts :
      LET t == pages[k].out.acc.posts[q].text
      IN  /\ Strip(t) # <<>>
          /\ \A i \in DOMAIN t : t[i] \notin ControlStripped

\* the page body made of one section header with one paragraph and one
\* figure reference
SectionParagraphFigure(p) ==
  /\ Len(p.out.acc.parts) = 2
  /\ p.out.acc.parts[1] = AnsSection
  /\ Contains(p.out.acc.parts[2], BeginFigure)

\* C8: a finished html export of a page body with one section header, one
\* paragraph and one figure reference wrote the .html file with one heading
\* for the section, one paragraph with the text unescaped, one image element
\* exactly when the image file exists, and the caption.
C8_HtmlRoundTrip ==
  (/\ pc = "returned"
   /\ requested = "html"
   /\ Len(pages) = 1
   /\ SectionParagraphFigure(pages[1])
   /\ NoExternalFault)
  => \E o \in outputs :
       /\ o.path = OutPath(".html")
       /\ result = o.path
       /\ CountEl(o.elems, "heading", <<"Intro">>) = 1
       /\ CountEl(o.elems, "p", <<"Alpha", " ", "&", " ", "beta">>) = 1
       /\ CountKind(o.elems, "img") = (IF pages[1].out.acc.saved # {} THEN 1 ELSE 0)
       /\ CountEl(o.elems, "caption", <<"<tu>">>) = 1

\* C9: a finished html, docx or pdf export of a page body that is one line with
\* an escaped special character, at the start of the line or inside it, wrote
\* the requested kind of document with a paragraph holding the line with the
\* bare character.
C9_EscapeRoundTrip ==
  (/\ pc = "returned"
   /\ requested \in {"html", "docx", "pdf"}
   /\ Len(pages) = 1
   /\ pages[1].out.acc.parts = <<AnsDollar>>
   /\ NoExternalFault)
  => \E o \in outputs :
       /\ o.path = result
       /\ result \in {OutPath(".html"), OutPath(".docx")}
       /\ CountEl(o.elems, "p", <<"$", "5", " ", "fee">>) = 1

\* C10: a finished html, docx or pdf export of a page body whose figure
\* reference names a file that does not exist wrote the requested kind of
\* document without an image element and with the figure's caption.
C10_MissingImageCaption ==
  (/\ pc = "returned"
   /\ requested \in {"html", "docx", "pdf"}
   /\ Len(pages) = 1
   /\ Len(pages[1].out.acc.parts) = 1
   /\ Contains(pages[1].out.acc.parts[1], BeginFigure)
   /\ pages[1].out.acc.saved = {}
   /\ NoExternalFault)
  => \E o \in outputs :
       /\ o.path = result
       /\ result \in {OutPath(".html"), OutPath(".docx")}
       /\ CountKind(o.elems, "img") = 0
       /\ CountEl(o.elems, "caption", <<"<tu>">>) = 1

Visual == {"table", "figure", "image", "formula"}

\* C11: a visual region whose crop is empty or whose image write failed (by
\* raising or by reporting failure) has no fragment in the page body, and
\* every figure fragment names a file that was written.
C11_FigureFileWritten ==
  \A k \in DOMAIN pages :
    LET acc == pages[k].out.acc
        regions == pages[k].sc.regions
    IN  /\ \A j \in DOMAIN regions :
             (/\ regions[j].type \in Visual
              /\ Len(regions[j].bbox) = 4
              /\ \/ ~NonEmptyBox(Clamp(regions[j].bbox, pages[k].sc.img))
                 \/ regions[j].imwrite # "ok")
             => \A i \in DOMAIN acc.src : acc.src[i] # j
        /\ \A i \in DOMAIN acc.src :
             regions[acc.src[i]].type \in Visual
             => \E f \in acc.saved :
                  acc.parts[i] = FigureFragment(f, caption_map(regions[acc.src[i]].type))

\* C13: a region whose clamped box is empty has no fragment in the page body
\* and, when it is a text or title region, no cleanup request.
C13_DegenerateBoxDiscarded ==
  \A k \in DOMAIN pages :
    LET acc == pages[k].out.acc
        regions == pages[k].sc.regions
    IN  \A j \in DOMAIN regions :
          (Len(regions[j].bbox) = 4 /\ ~NonEmptyBox(Clamp(regions[j].bbox, pages[k].sc.img)))
          => /\ \A i \in DOMAIN acc.src : acc.src[i] # j
             /\ \A q \in DOMAIN acc.posts : acc.posts[q].idx # j

\* ------------------------------------------- the page loop, without export
\* Pages for the loop of process_all_images: unreadable, detection failing,
\* a text region whose fallback OCR raises (alone and beside a figure), and
\* several visual regions on one page, also behind a failed save.
OcrFails == Reg("text", <<0, 0, 4, 2>>, <<>>, NoOcr, NoApi, "ok")
Vis(type, imwrite) == Reg(type, <<0, 2, 4, 4>>, <<>>, NoOcr, NoApi, imwrite)

LoopPages ==
  {Unreadable, DetectFails,
   Page(<<Reg("text", <<0, 0, 4, 2>>, <<OcrPlain>>, NoOcr, NoApi, "ok")>>),
   Page(<<OcrFails>>),
   Page(<<OcrFails, Vis("figure", "ok")>>),
   Page(<<Vis("figure", "ok")>>),
   Page(<<Vis("table", "raise"), Vis("table", "ok")>>),
   Page(<<Vis("figure", "ok"), Vis("figure", "ok")>>),
   Page(<<Vis("table", "false"), Vis("formula", "ok")>>)}

LoopPage == ProcessPage(LoopPages)

NextLoop ==
  \/ NoImages
  \/ FoundImages
  \/ LoopPage

SpecLoop == Init /\ [][NextLoop]_vars

\* the fallback OCR call of region r raised
OcrFailed(r, img) ==
  /\ r.type \in {"text", "title"}
  /\ Len(r.bbox) = 4
  /\ (r.res = <<>> \/ Strip(Join(r.res, <<"\n">>)) = <<>>)
  /\ NonEmptyBox(Clamp(r.bbox, img))
  /\ r.ocr.raises

Without(rs, j) == SubSeq(rs, 1, j - 1) \o SubSeq(rs, j + 1, Len(rs))

RECURSIVE NumberedBodies(_, _)
\* the non-blank page bodies from page i on, each under its own page number
NumberedBodies(ps, i) ==
  IF i > Len(ps) THEN <<>>
  ELSE (IF Strip(ps[i].out.body) # <<>>
        THEN <<(<<BS, "subsection", "{", "<di>", " ", ToString(i), " ", "<ye>", "}", "\n", "\n">>
                 \o ps[i].out.body)>>
        ELSE <<>>)
       \o NumberedBodies(ps, i + 1)

\* C12: the page loop goes on after every page; a page whose image or layout
\* detection failed gives no fragment; a page with a region whose fallback OCR
\* raised gives the fragments it gives without that region; and the page
\* bodies kept are those of the non-blank pages, each under its own 1-based
\* number, whatever happened on the other pages.
C12_PageIsolation ==
  /\ Len(pages) < num_pages => pc = "pages"
  /\ \A k \in DOMAIN pages :
       LET sc == pages[k].sc
       IN  /\ pages[k].page_index = k
           /\ (~sc.readable \/ ~sc.detect_ok) => pages[k].out.acc.parts = <<>>
           /\ \A j \in DOMAIN sc.regions :
                OcrFailed(sc.regions[j], sc.img) =>
                  pages[k].out.acc.parts =
                    process_single_image(Page(Without(sc.regions, j)), k).acc.parts
  /\ all_latex_content = NumberedBodies(pages, 1)

\* page 1 could not be read, page 2 holds a region whose fallback OCR raised
\* and a figure, and the one page body kept is that of page 2
C12_Witness ==
  /\ pc = "first"
  /\ Len(pages) = 2
  /\ ~pages[1].sc.readable
  /\ \E j \in DOMAIN pages[2].sc.regions : OcrFailed(pages[2].sc.regions[j], pages[2].sc.img)
  /\ Len(pages[2].out.acc.parts) = 1
  /\ Len(all_latex_content) = 1
  /\ page_match(all_latex_content[1]) = "2"

RECURSIVE AllTargets(_, _)
\* the paths handed to cv2.imwrite from page i on, in order
AllTargets(ps, i) ==
  IF i > Len(ps) THEN <<>> ELSE ps[i].out.acc.targets \o AllTargets(ps, i + 1)

\* C15: no two image writes of a run go to the same path.
C15_DistinctImagePaths ==
  LET t == AllTargets(pages, 1)
  IN  \A a, b \in DOMAIN t : a # b => t[a] # t[b]

\* two pages with two visual regions each, on page 1 a table behind a table
\* whose save failed
C15_Witness ==
  /\ pc = "first"
  /\ Len(pages) = 2
  /\ Len(pages[1].out.acc.targets) = 2
  /\ Cardinality(pages[1].out.acc.saved) = 1
  /\ Len(pages[2].out.acc.targets) = 2
  /\ Cardinality(pages[2].out.acc.saved) = 2

\* the levels the exporters give to \section and \subsection blocks
SectionLevel(fmt) == IF fmt = "html" THEN 2 ELSE 1
SubsectionLevel(fmt) == IF fmt = "html" THEN 3 ELSE 2

\* C14: a finished html, docx or pdf export of a page body with the block
\* \section{substance} and the block \subsection{Intro} wrote the requested
\* kind of document with the heading "substance" at the exporter's section
\* level and the heading "Intro" at its deeper subsection level.
C14_HeadingLevels ==
  (/\ pc = "returned"
   /\ requested \in {"html", "docx", "pdf"}
   /\ Len(pages) = 1
   /\ pages[1].out.acc.parts = <<AnsHeaders>>
   /\ NoExternalFault)
  => \E o \in outputs :
       /\ o.path = result
       /\ result \in {OutPath(".html"), OutPath(".docx")}
       /\ \A i \in DOMAIN o.elems :
            (o.elems[i].kind = "heading" /\ o.elems[i].text = <<"substance">>)
            => o.elems[i].level = SectionLevel(requested)
       /\ \A i \in DOMAIN o.elems :
            (o.elems[i].kind = "heading" /\ o.elems[i].text = <<"Intro">>)
            => o.elems[i].level = SubsectionLevel(requested)
       /\ CountEl(o.elems, "heading", <<"substance">>) = 1
       /\ CountEl(o.elems, "heading", <<"Intro">>) = 1

====
